---- MODULE Spec2Model ----
(***************************************************************************)
(* The tagged event filterer of watchexec (lib/src/filter/tagged.rs):      *)
(* the rule store, the mutation entry points add_filter / remove_filter /  *)
(* clear_filters, and the per-event decision check_event, run by one       *)
(* evaluator concurrently with two rule editors.                           *)
(***************************************************************************)
EXTENDS Integers, Sequences, FiniteSets, TLC

\* ------------------------------------------------------------------ bounds
\* Longest event (number of tags) an evaluator is given.
MaxTags == 2
\* Largest number of rules the store holds (adds are not issued beyond it).
MaxFilters == 2

\* ------------------------------------------------------------- data model
\* enum Matcher
Matcher == {"Tag", "Path", "FileEventKind", "Source", "Process", "Signal",
            "ProcessCompletion"}

\* enum Op
Op == {"Auto", "Equal", "NotEqual", "Regex", "NotRegex", "Glob", "NotGlob",
       "InSet", "NotInSet"}

\* Pattern::Exact(String)
Exact(s) == [kind |-> "Exact", text |-> s]

\* struct Filter
MkFilter(on, op, pat, negate) ==
    [in_path |-> "None", on |-> on, op |-> op, pat |-> pat, negate |-> negate]

\* The rules the editors add and remove.
FSourceKeyboard   == MkFilter("Source", "Equal", Exact("keyboard"), FALSE)
FSourceFilesystem == MkFilter("Source", "Equal", Exact("filesystem"), TRUE)
FProcess          == MkFilter("Process", "Equal", Exact("7"), FALSE)
FTagSource        == MkFilter("Tag", "Equal", Exact("Source"), FALSE)
FPath             == MkFilter("Path", "Equal", Exact("p"), FALSE)

FilterUniverse ==
    {FSourceKeyboard, FSourceFilesystem, FProcess, FTagSource, FPath}

\* The rules of the scenarios: rules whose tags have an extraction, and rules
\* of the kind-name and path dimensions.
MatchingFilters == {FSourceKeyboard, FSourceFilesystem, FProcess}

GapFilters == {FTagSource, FPath, FSourceKeyboard}

\* The tags the evaluator's events are made of (enum Tag).
TagPath    == [variant |-> "Path", path |-> "p"]
TagSource  == [variant |-> "Source", source |-> "Filesystem"]
TagProcess == [variant |-> "Process", pid |-> 42]

TagUniverse == {TagPath, TagSource, TagProcess}

MatchingTags == {TagSource, TagProcess}

GapTags == {TagPath, TagProcess}

\* A rule that rejects the filesystem source and a rule of the path
\* dimension, with the tags of their two dimensions.
ShortFilters == {FSourceKeyboard, FPath}

ShortTags == {TagSource, TagPath}

\* Patterns of the four kinds. A compiled regular expression or glob is its
\* source text together with the subjects, among those of the scenario, that
\* it matches.
PatExact == Exact("7")

PatRegex == [kind |-> "Regex", text |-> "^4", lang |-> {"42"}]

PatGlob == [kind |-> "Glob", text |-> "7*", lang |-> {"7"}]

PatSet == [kind |-> "Set", set |-> {"42", "9"}]

Patterns == {PatExact, PatRegex, PatGlob, PatSet}

\* Every pairing of an operator with a pattern, as a non-negated rule of the
\* process dimension, and the tags matched against them.
TableFilters == {MkFilter("Process", op, pat, FALSE) : op \in Op, pat \in Patterns}

TagProcess7 == [variant |-> "Process", pid |-> 7]

TableTags == {TagProcess, TagProcess7}

\* Rules that differ from FSourceKeyboard in exactly one field: the scoping
\* path, the operator, the pattern, the negation, the dimension.
FKeyboardScoped ==
    [in_path |-> "Some(/a)", on |-> "Source", op |-> "Equal",
     pat |-> Exact("keyboard"), negate |-> FALSE]

FKeyboardNotEqual == MkFilter("Source", "NotEqual", Exact("keyboard"), FALSE)

FSourceMouse == MkFilter("Source", "Equal", Exact("mouse"), FALSE)

FKeyboardNegated == MkFilter("Source", "Equal", Exact("keyboard"), TRUE)

FProcessKeyboard == MkFilter("Process", "Equal", Exact("keyboard"), FALSE)

SourceVariants ==
    {FSourceKeyboard, FKeyboardScoped, FKeyboardNotEqual, FSourceMouse, FKeyboardNegated}

\* One rule and the tag of its dimension, for the scenario of an evaluator
\* running beside two editors.
LiveFilters == {FSourceKeyboard}

LiveTags == {TagSource}

RECURSIVE SeqsUpTo(_, _)
SeqsUpTo(S, n) ==
    IF n = 0 THEN {<< >>}
    ELSE LET shorter == SeqsUpTo(S, n - 1)
         IN  shorter \cup {Append(s, x) : s \in {t \in shorter : Len(t) = n - 1}, x \in S}

\* struct Event: an ordered sequence of tags.
Events(tags) == SeqsUpTo(tags, MaxTags)

\* ------------------------------------------------------- pure functions
\* impl PartialEq for Pattern
PatternEq(l, r) ==
    CASE l.kind = "Exact" /\ r.kind = "Exact" -> l.text = r.text
      [] l.kind = "Regex" /\ r.kind = "Regex" -> l.text = r.text
      [] l.kind = "Glob"  /\ r.kind = "Glob"  -> l.text = r.text
      [] l.kind = "Set"   /\ r.kind = "Set"   -> l.set = r.set
      [] OTHER -> FALSE

\* Equality of rules that leaves the scoping path out.
FilterEqNoPath(f, g) ==
    /\ f.on = g.on
    /\ f.op = g.op
    /\ PatternEq(f.pat, g.pat)
    /\ f.negate = g.negate

\* #[derive(PartialEq)] on Filter: all five fields.
FilterEq(f, g) ==
    /\ f.in_path = g.in_path
    /\ f.on = g.on
    /\ f.op = g.op
    /\ PatternEq(f.pat, g.pat)
    /\ f.negate = g.negate

\* Filter::matches with each negative operator as the complement of its
\* positive one.
MatchesComplement(filter, subject) ==
    LET op == filter.op
        pat == filter.pat
        hit == CASE pat.kind = "Exact" -> subject = pat.text
                 [] pat.kind = "Regex" -> subject \in pat.lang
                 [] pat.kind = "Glob"  -> subject \in pat.lang
                 [] pat.kind = "Set"   -> subject \in pat.set
        pos == (op = "Equal" /\ pat.kind = "Exact")
                 \/ (op = "Regex" /\ pat.kind = "Regex")
                 \/ (op = "Glob" /\ pat.kind = "Glob")
                 \/ (op = "InSet" /\ pat.kind \in {"Set", "Exact"})
    IN  CASE op \in {"Equal", "Regex", "Glob", "InSet"} -> pos /\ hit
          [] op = "NotEqual" -> ~(pat.kind = "Exact" /\ hit)
          [] op = "NotRegex" -> ~(pat.kind = "Regex" /\ hit)
          [] op = "NotGlob"  -> ~(pat.kind = "Glob" /\ hit)
          [] op = "NotInSet" -> ~(pat.kind \in {"Set", "Exact"} /\ hit)
          [] OTHER -> FALSE

\* Filter::matches
Matches(filter, subject) ==
    LET op == filter.op
        pat == filter.pat
    IN  CASE op = "Equal"    /\ pat.kind = "Exact" -> subject = pat.text
          [] op = "NotEqual" /\ pat.kind = "Exact" -> subject # pat.text
          [] op = "Regex"    /\ pat.kind = "Regex" -> subject \in pat.lang
          [] op = "NotRegex" /\ pat.kind = "Regex" -> subject \notin pat.lang
          [] op = "Glob"     /\ pat.kind = "Glob"  -> subject \in pat.lang
          [] op = "NotGlob"  /\ pat.kind = "Glob"  -> subject \notin pat.lang
          [] op = "InSet"    /\ pat.kind = "Set"   -> subject \in pat.set
          [] op = "InSet"    /\ pat.kind = "Exact" -> subject = pat.text
          [] op = "NotInSet" /\ pat.kind = "Set"   -> subject \notin pat.set
          [] op = "NotInSet" /\ pat.kind = "Exact" -> subject # pat.text
          [] OTHER -> FALSE

\* impl From<&Tag> for Matcher
MatcherOf(tag) ==
    CASE tag.variant = "Path"              -> "Path"
      [] tag.variant = "FileEventKind"     -> "FileEventKind"
      [] tag.variant = "Source"            -> "Source"
      [] tag.variant = "Process"           -> "Process"
      [] tag.variant = "Signal"            -> "Signal"
      [] tag.variant = "ProcessCompletion" -> "ProcessCompletion"

\* Tag::discriminant_name
DiscriminantName(tag) == tag.variant

\* impl Display for Source
SourceToString(src) ==
    CASE src = "Filesystem" -> "filesystem"
      [] src = "Keyboard"   -> "keyboard"
      [] src = "Mouse"      -> "mouse"
      [] src = "Os"         -> "os"
      [] src = "Time"       -> "time"
      [] src = "Internal"   -> "internal"

Digit == <<"0", "1", "2", "3", "4", "5", "6", "7", "8", "9">>

\* u32::to_string
RECURSIVE PidToString(_)
PidToString(n) ==
    IF n < 10 THEN Digit[n + 1]
    ELSE PidToString(n \div 10) \o Digit[(n % 10) + 1]

\* format!("{:?}", kind) of a file event kind
KindDebug(kind) == kind.outer \o "(" \o kind.inner \o ")"

\* What one call of match_tag produces.
SomeOf(b) == IF b THEN "Some(true)" ELSE "Some(false)"

\* TaggedFilterer::match_tag
MatchTag(filter, tag) ==
    CASE filter.on = "Tag" -> SomeOf(Matches(filter, DiscriminantName(tag)))
      [] tag.variant = "Path" /\ filter.on = "Path" -> "panic"
      [] tag.variant = "FileEventKind" /\ filter.on = "FileEventKind" ->
            SomeOf(Matches(filter, KindDebug(tag.kind)))
      [] tag.variant = "Source" /\ filter.on = "Source" ->
            SomeOf(Matches(filter, SourceToString(tag.source)))
      [] tag.variant = "Process" /\ filter.on = "Process" ->
            SomeOf(Matches(filter, PidToString(tag.pid)))
      [] tag.variant = "Signal" /\ filter.on = "Signal" -> "panic"
      [] tag.variant = "ProcessCompletion" /\ filter.on = "ProcessCompletion" ->
            "panic"
      [] OTHER -> "None"

\* FilterStep with a non-negated rule that accumulates by disjunction.
FilterStepOr(acc, filter, tag) ==
    LET app == MatchTag(filter, tag)
    IN  IF acc = "panic" \/ app = "panic" THEN "panic"
        ELSE IF app = "None" THEN acc
        ELSE IF filter.negate
             THEN (IF app = "Some(true)" THEN "true" ELSE acc)
             ELSE (IF acc = "true" \/ app = "Some(true)" THEN "true" ELSE "false")

\* FilterStep with a negated rule that never overrides.
FilterStepNoOverride(acc, filter, tag) ==
    LET app == MatchTag(filter, tag)
    IN  IF acc = "panic" \/ app = "panic" THEN "panic"
        ELSE IF app = "None" THEN acc
        ELSE IF filter.negate THEN acc
        ELSE (IF acc = "true" /\ app = "Some(true)" THEN "true" ELSE "false")

\* One turn of the loop over the rules of a tag: the accumulator tag_match
\* after the rule, or "panic" once a rule's extraction aborted.
FilterStep(acc, filter, tag) ==
    LET app == MatchTag(filter, tag)
    IN  IF acc = "panic" \/ app = "panic" THEN "panic"
        ELSE IF app = "None" THEN acc
        ELSE IF filter.negate
             THEN (IF app = "Some(true)" THEN "true" ELSE acc)
             ELSE (IF acc = "true" /\ app = "Some(true)" THEN "true" ELSE "false")

\* TagMatch with a matching negated rule that wins wherever it sits.
TagMatchTrump(tag_filters, tag) ==
    LET n == Len(tag_filters)
    IN  IF \E i \in 1..n : MatchTag(tag_filters[i], tag) = "panic" THEN "panic"
        ELSE IF \E i \in 1..n : tag_filters[i].negate
                                  /\ MatchTag(tag_filters[i], tag) = "Some(true)"
             THEN "true"
        ELSE IF \E i \in 1..n : ~tag_filters[i].negate
                                  /\ MatchTag(tag_filters[i], tag) = "Some(false)"
             THEN "false"
        ELSE "true"

\* TagMatch walking the rules from the last added to the first.
RECURSIVE TagMatchRev(_, _)
TagMatchRev(tag_filters, tag) ==
    IF tag_filters = << >> THEN "true"
    ELSE FilterStep(TagMatchRev(Tail(tag_filters), tag), Head(tag_filters), tag)

\* The loop over the rules of a tag, from tag_match = true.
RECURSIVE TagMatch(_, _)
TagMatch(tag_filters, tag) ==
    IF tag_filters = << >> THEN "true"
    ELSE FilterStep(TagMatch(SubSeq(tag_filters, 1, Len(tag_filters) - 1), tag),
                    tag_filters[Len(tag_filters)], tag)

\* ---------------------------------------------------------------- store
\* HashMap::new()
EmptyMap == << >>

\* is_empty with the test inverted.
IsEmptyInverted(m) == DOMAIN m # {}

\* HashMap::is_empty
IsEmpty(m) == DOMAIN m = {}

\* Option<Vec<Filter>>
None == [some |-> FALSE, val |-> << >>]

Some(v) == [some |-> TRUE, val |-> v]

\* HashMap::get(..).cloned()
Get(m, k) == IF k \in DOMAIN m THEN Some(m[k]) ELSE None

\* entry(k).or_default()
OrDefault(m, k) == IF k \in DOMAIN m THEN m[k] ELSE << >>

Insert(m, k, v) == [x \in DOMAIN m \cup {k} |-> IF x = k THEN v ELSE m[x]]

\* Vec::retain
RECURSIVE Retain(_, _)
Retain(s, filter) ==
    IF s = << >> THEN << >>
    ELSE IF FilterEq(Head(s), filter) THEN Retain(Tail(s), filter)
         ELSE <<Head(s)>> \o Retain(Tail(s), filter)

\* add_filter that files every rule under the key of the path dimension.
AddTransformMiskeyed(m, filter) ==
    Insert(m, "Path", Append(OrDefault(m, "Path"), filter))

\* add_filter that puts the new rule in front of the rules of its dimension.
AddTransformPrepend(m, filter) ==
    Insert(m, filter.on, <<filter>> \o OrDefault(m, filter.on))

\* add_filter that replaces the rules of the dimension by the new rule.
AddTransformOverwrite(m, filter) == Insert(m, filter.on, <<filter>>)

\* The closure add_filter hands to change().
AddTransform(m, filter) ==
    Insert(m, filter.on, Append(OrDefault(m, filter.on), filter))

\* Vec::retain with the predicate inverted.
RECURSIVE RetainEqual(_, _)
RetainEqual(s, filter) ==
    IF s = << >> THEN << >>
    ELSE IF FilterEq(Head(s), filter) THEN <<Head(s)>> \o RetainEqual(Tail(s), filter)
         ELSE RetainEqual(Tail(s), filter)

\* remove_filter that keeps the rules equal to the given one.
RemoveTransformInverted(m, filter) ==
    Insert(m, filter.on, RetainEqual(OrDefault(m, filter.on), filter))

\* The closure remove_filter hands to change().
RemoveTransform(m, filter) ==
    Insert(m, filter.on, Retain(OrDefault(m, filter.on), filter))

\* The mapping clear_filters hands to replace().
ClearMapping == EmptyMap

\* CheckTag with a tag whose dimension is not in the store rejected.
CheckTagNoneFails(tag_filters, tag) ==
    IF ~tag_filters.some THEN "false"
    ELSE IF tag_filters.val = << >> THEN "true"
    ELSE TagMatch(tag_filters.val, tag)

\* The verdict of one tag against the rules fetched for it.
CheckTag(tag_filters, tag) ==
    IF ~tag_filters.some THEN "true"
    ELSE IF tag_filters.val = << >> THEN "true"
    ELSE TagMatch(tag_filters.val, tag)

\* check_event against one mapping that does not change during the call.
RECURSIVE CheckTagsOn(_, _)
CheckTagsOn(m, tags) ==
    IF tags = << >> THEN "Ok(true)"
    ELSE LET r == CheckTag(Get(m, MatcherOf(Head(tags))), Head(tags))
         IN  IF r = "panic" THEN "panic"
             ELSE IF r = "false" THEN "Ok(false)"
             ELSE CheckTagsOn(m, Tail(tags))

CheckEventOn(m, e) == IF IsEmpty(m) THEN "Ok(true)" ELSE CheckTagsOn(m, e)

\* ------------------------------------------------------------ the system
Writers == {"w1", "w2"}

\* What an editor asks for: add_filter(f), remove_filter(f), clear_filters().
NoOp == [kind |-> "none"]

AddOp(f) == [kind |-> "add", filter |-> f]

RemoveOp(f) == [kind |-> "remove", filter |-> f]

ClearOp == [kind |-> "clear all"]

Ops(F) == {AddOp(f) : f \in F} \cup {RemoveOp(f) : f \in F} \cup {ClearOp}

VARIABLES
    filters,      \* the published mapping of the swap lock
    lock,         \* the writer holding the store's serialization point, or "none"
    working,      \* the mapping the lock holder is about to publish
    wpc,          \* each editor: "idle", "waiting" or "holding"
    wop,          \* each editor's current call
    result,       \* what each editor's last call returned
    raced,        \* history: another edit was published while this call waited
    lastDone,     \* history: the last edit published
    rpc,          \* the evaluator: "idle", "loop" or "done"
    event,        \* the event being checked
    idx,          \* the number of tags of the event fetched so far
    tag_filters,  \* the rules fetched for the last tag
    verdict,      \* what check_event returned
    okVerdicts    \* history: the verdicts of the mappings published during the
                  \* call in progress

wvars == <<lock, working, wpc, wop, result, raced, lastDone>>
rvars == <<rpc, event, idx, tag_filters, verdict, okVerdicts>>
vars == <<filters, wvars, rvars>>

\* Number of rules in a mapping.
RECURSIVE SumLen(_, _)
SumLen(m, keys) ==
    IF keys = {} THEN 0
    ELSE LET k == CHOOSE x \in keys : TRUE
         IN  Len(m[k]) + SumLen(m, keys \ {k})

Size(m) == SumLen(m, DOMAIN m)

PendingAdds == Cardinality({w \in Writers : wpc[w] # "idle" /\ wop[w].kind = "add"})

\* TaggedFilterer::new
Init ==
    /\ filters = EmptyMap
    /\ lock = "none"
    /\ working = EmptyMap
    /\ wpc = [w \in Writers |-> "idle"]
    /\ wop = [w \in Writers |-> NoOp]
    /\ result = [w \in Writers |-> "none"]
    /\ raced = [w \in Writers |-> FALSE]
    /\ lastDone = [op |-> NoOp, raced |-> FALSE, created |-> FALSE]
    /\ rpc = "idle"
    /\ event = << >>
    /\ idx = 0
    /\ tag_filters = None
    /\ verdict = "none"
    /\ okVerdicts = {}

\* The mapping a call publishes, from the mapping it copied.
Transform(op, m) ==
    CASE op.kind = "add"       -> AddTransform(m, op.filter)
      [] op.kind = "remove"    -> RemoveTransform(m, op.filter)
      [] op.kind = "clear all" -> ClearMapping

\* An editor calls add_filter, remove_filter or clear_filters, which call
\* SwapLock::change / replace: when no other edit is in progress the call is
\* at the store's serialization point at once and prepares the mapping to
\* publish from the current one, otherwise it waits.
Call(w, op) ==
    /\ wpc[w] = "idle"
    /\ op.kind = "add" => Size(filters) + PendingAdds < MaxFilters
    /\ wop' = [wop EXCEPT ![w] = op]
    /\ result' = [result EXCEPT ![w] = "none"]
    /\ raced' = [raced EXCEPT ![w] = FALSE]
    /\ IF lock = "none"
         THEN /\ lock' = w
              /\ working' = Transform(op, filters)
              /\ wpc' = [wpc EXCEPT ![w] = "holding"]
         ELSE /\ wpc' = [wpc EXCEPT ![w] = "waiting"]
              /\ UNCHANGED <<lock, working>>
    /\ UNCHANGED <<filters, lastDone, rvars>>

\* SwapLock::change / replace: a call that waited reaches the store's
\* serialization point and prepares the mapping to publish from the current one.
Acquire(w) ==
    /\ wpc[w] = "waiting"
    /\ lock = "none"
    /\ lock' = w
    /\ working' = Transform(wop[w], filters)
    /\ wpc' = [wpc EXCEPT ![w] = "holding"]
    /\ UNCHANGED <<filters, wop, result, raced, lastDone, rvars>>

\* SwapLock::change / replace: the new mapping is published, the call
\* returns Ok(()).
Publish(w) ==
    /\ wpc[w] = "holding"
    /\ lock = w
    /\ filters' = working
    /\ lock' = "none"
    /\ working' = EmptyMap
    /\ wpc' = [wpc EXCEPT ![w] = "idle"]
    /\ result' = [result EXCEPT ![w] = "Ok"]
    /\ raced' = [v \in Writers |-> IF v # w /\ wpc[v] = "waiting" THEN TRUE ELSE raced[v]]
    /\ lastDone' = [op |-> wop[w], raced |-> raced[w],
                    created |-> DOMAIN working # DOMAIN filters]
    /\ okVerdicts' = IF rpc = "loop"
                        THEN okVerdicts \cup {CheckEventOn(working, event)}
                        ELSE okVerdicts
    /\ wop' = [wop EXCEPT ![w] = NoOp]
    /\ UNCHANGED <<rpc, event, idx, tag_filters, verdict>>

\* map_err with the error dropped.
ErrorActionDropped(op) == "Ok"

\* The action RuntimeError::FilterChange is tagged with by map_err.
ErrorAction(op) ==
    CASE op.kind = "add"       -> "add"
      [] op.kind = "remove"    -> "remove"
      [] op.kind = "clear all" -> "clear all"

\* SwapLock::change / replace fails: nothing is published, the call returns
\* RuntimeError::FilterChange { action, .. }.
Fail(w) ==
    /\ wpc[w] = "holding"
    /\ lock = w
    /\ lock' = "none"
    /\ working' = EmptyMap
    /\ wpc' = [wpc EXCEPT ![w] = "idle"]
    /\ result' = [result EXCEPT ![w] = ErrorAction(wop[w])]
    /\ wop' = [wop EXCEPT ![w] = NoOp]
    /\ UNCHANGED <<filters, raced, lastDone, rvars>>

\* check_event, up to its first look at the store.
Start(e) ==
    /\ rpc # "loop"
    /\ event' = e
    /\ idx' = 0
    /\ tag_filters' = None
    /\ IF IsEmpty(filters) \/ e = << >>
         THEN rpc' = "done" /\ verdict' = "Ok(true)" /\ okVerdicts' = {}
         ELSE rpc' = "loop" /\ verdict' = "none"
              /\ okVerdicts' = {CheckEventOn(filters, e)}
    /\ UNCHANGED <<filters, wvars>>

\* Outcome with a failing tag that does not end the call.
OutcomeNoShort(r, last) ==
    IF r = "panic" THEN [rpc |-> "done", verdict |-> "panic"]
    ELSE IF last THEN [rpc |-> "done",
                       verdict |-> IF r = "false" THEN "Ok(false)" ELSE "Ok(true)"]
    ELSE [rpc |-> "loop", verdict |-> "none"]

\* check_event, after the rules of a tag have been run: r is the tag's
\* accumulator, last tells whether the tag is the event's last one.
Outcome(r, last) ==
    IF r = "panic" THEN [rpc |-> "done", verdict |-> "panic"]
    ELSE IF r = "false" THEN [rpc |-> "done", verdict |-> "Ok(false)"]
    ELSE IF last THEN [rpc |-> "done", verdict |-> "Ok(true)"]
    ELSE [rpc |-> "loop", verdict |-> "none"]

\* A turn of the loop that takes the rules of the tag out of the store
\* instead of copying them.
FetchAndJudgeTakes ==
    /\ LET tag == event[idx + 1]
           fetched == Get(filters, MatcherOf(tag))
           out == Outcome(CheckTag(fetched, tag), idx + 1 = Len(event))
       IN  /\ tag_filters' = fetched
           /\ filters' = [k \in DOMAIN filters \ {MatcherOf(tag)} |-> filters[k]]
           /\ idx' = idx + 1
           /\ rpc' = out.rpc
           /\ verdict' = out.verdict
           /\ okVerdicts' = IF out.rpc = "done" THEN {} ELSE okVerdicts
    /\ UNCHANGED <<wvars, event>>

\* check_event, the body of one turn of the loop over the event's tags: the
\* rules of the next tag are fetched from the store and run against it.
FetchAndJudge ==
    /\ LET tag == event[idx + 1]
           fetched == Get(filters, MatcherOf(tag))
           out == Outcome(CheckTag(fetched, tag), idx + 1 = Len(event))
       IN  /\ tag_filters' = fetched
           /\ idx' = idx + 1
           /\ rpc' = out.rpc
           /\ verdict' = out.verdict
           /\ okVerdicts' = IF out.rpc = "done" THEN {} ELSE okVerdicts
    /\ UNCHANGED <<filters, wvars, event>>

\* A turn of the loop that waits until no edit is in progress.
TagStepBlocking == rpc = "loop" /\ lock = "none" /\ FetchAndJudge

\* check_event, one turn of the loop over the event's tags.
TagStep == rpc = "loop" /\ FetchAndJudge

\* One evaluator and one editor, over the rules whose tags have an extraction.
Next ==
    \/ \E op \in Ops(MatchingFilters) : Call("w1", op)
    \/ Publish("w1")
    \/ Fail("w1")
    \/ \E e \in Events(MatchingTags) : Start(e)
    \/ TagStep

Spec == Init /\ [][Next]_vars

\* One evaluator and one editor, over rules of the kind-name and path
\* dimensions.
NextGaps ==
    \/ \E op \in Ops(GapFilters) : Call("w1", op)
    \/ Publish("w1")
    \/ Fail("w1")
    \/ \E e \in Events(GapTags) : Start(e)
    \/ TagStep

SpecGaps == Init /\ [][NextGaps]_vars

\* Two editors and no evaluator.
NextEdit ==
    \/ \E w \in Writers, op \in Ops(MatchingFilters) : Call(w, op)
    \/ \E w \in Writers : Acquire(w)
    \/ \E w \in Writers : Publish(w)
    \/ \E w \in Writers : Fail(w)

SpecEdit == Init /\ [][NextEdit]_vars

\* One evaluator and one editor, over a rule that rejects a tag and a rule
\* whose tag has no extraction.
NextShort ==
    \/ \E op \in Ops(ShortFilters) : Call("w1", op)
    \/ Publish("w1")
    \/ Fail("w1")
    \/ \E e \in Events(ShortTags) : Start(e)
    \/ TagStep

SpecShort == Init /\ [][NextShort]_vars

\* The store holds one rule, any pairing of an operator with a pattern, put
\* there by one add_filter; an evaluator runs events against it.
InitTable ==
    /\ filters \in {AddTransform(EmptyMap, f) : f \in TableFilters}
    /\ lock = "none"
    /\ working = EmptyMap
    /\ wpc = [w \in Writers |-> "idle"]
    /\ wop = [w \in Writers |-> NoOp]
    /\ result = [w \in Writers |-> "none"]
    /\ raced = [w \in Writers |-> FALSE]
    /\ lastDone = [op |-> NoOp, raced |-> FALSE, created |-> FALSE]
    /\ rpc = "idle"
    /\ event = << >>
    /\ idx = 0
    /\ tag_filters = None
    /\ verdict = "none"
    /\ okVerdicts = {}

NextTable ==
    \/ \E e \in Events(TableTags) : Start(e)
    \/ TagStep

SpecTable == InitTable /\ [][NextTable]_vars

\* The longest list of rules the removal scenario starts from.
MaxStored == 3

\* The stores the removal scenario starts from: a list of rules of the source
\* dimension, duplicates included, beside one rule of the process dimension.
StoredLists == SeqsUpTo(SourceVariants, MaxStored)

\* The edits of the removal scenario.
RemoveOps ==
    {RemoveOp(f) : f \in SourceVariants \cup {FProcessKeyboard}}
       \cup {AddOp(FSourceKeyboard), ClearOp}

\* One editor works on a store that earlier add_filter calls have filled.
InitRemove ==
    /\ filters \in {[k \in {"Source", "Process"} |->
                       IF k = "Source" THEN l ELSE <<FProcessKeyboard>>] :
                     l \in StoredLists}
    /\ lock = "none"
    /\ working = EmptyMap
    /\ wpc = [w \in Writers |-> "idle"]
    /\ wop = [w \in Writers |-> NoOp]
    /\ result = [w \in Writers |-> "none"]
    /\ raced = [w \in Writers |-> FALSE]
    /\ lastDone = [op |-> NoOp, raced |-> FALSE, created |-> FALSE]
    /\ rpc = "idle"
    /\ event = << >>
    /\ idx = 0
    /\ tag_filters = None
    /\ verdict = "none"
    /\ okVerdicts = {}

NextRemove ==
    \/ \E op \in RemoveOps : Call("w1", op)
    \/ Publish("w1")
    \/ Fail("w1")

SpecRemove == InitRemove /\ [][NextRemove]_vars

\* The edits of that scenario.
LiveOps == {AddOp(f) : f \in LiveFilters} \cup {ClearOp}

\* One evaluator beside two editors. The evaluator is a thread running
\* synchronous code, so a turn of its loop that stays possible is eventually
\* taken; nothing is assumed about the editors, which may stay in a call, or
\* wait for the store, for ever.
NextLive ==
    \/ \E w \in Writers, op \in LiveOps : Call(w, op)
    \/ \E w \in Writers : Acquire(w)
    \/ \E w \in Writers : Publish(w)
    \/ \E w \in Writers : Fail(w)
    \/ \E e \in Events(LiveTags) : Start(e)
    \/ TagStep

SpecLive == Init /\ [][NextLive]_vars /\ WF_vars(TagStep)

\* ------------------------------------------------------------ properties
\* A step of check_event that fetches and judges the next tag.
TagStepTaken == rpc = "loop" /\ idx' = idx + 1

\* The tag such a step judges, and the rules the store holds for it.
CurTag == event[idx + 1]

CurRules == OrDefault(filters, MatcherOf(CurTag))

\* The tag passes: check_event goes on to the next tag or returns true.
TagPasses == verdict' \in {"none", "Ok(true)"}

\* C1: the verdict of a call is the verdict of one of the mappings that were
\* published while the call ran.
C1_SingleMapping ==
    [][(rpc = "loop" /\ rpc' = "done") => verdict' \in okVerdicts]_vars

\* C2: check_event never aborts, it always returns a boolean.
C2_NeverFails == verdict # "panic"

\* A non-negated rule of the kind-name dimension misses the tag's variant
\* name, and no negated rule of that dimension could override it.
KindNameMisses(m, tag) ==
    LET l == OrDefault(m, "Tag")
    IN  /\ \E i \in 1..Len(l) : ~l[i].negate /\ ~Matches(l[i], DiscriminantName(tag))
        /\ \A i \in 1..Len(l) : ~l[i].negate

\* C3: rules of the kind-name dimension are applied to every tag: a tag whose
\* variant name such a rule misses is rejected, whatever the tag's variant
\* (for tags whose own dimension's rules evaluate without aborting).
C3_KindNameApplied ==
    [][(/\ TagStepTaken
        /\ KindNameMisses(filters, CurTag)
        /\ CheckTag(Get(filters, MatcherOf(CurTag)), CurTag) # "panic")
       => verdict' = "Ok(false)"]_vars

\* The mapping from which add_filter(f) produced m.
BeforeAdd(m, f, created) ==
    IF created THEN [k \in DOMAIN m \ {f.on} |-> m[k]]
    ELSE [m EXCEPT ![f.on] = SubSeq(m[f.on], 1, Len(m[f.on]) - 1)]

\* C4: add_filter(r) followed by remove_filter(r), called after the add
\* returned and with no other edit in between, leaves the mapping equal to the
\* mapping before the add.
C4_RoundTrip ==
    [][\A f \in FilterUniverse :
         (lastDone.op = AddOp(f) /\ lastDone'.op = RemoveOp(f) /\ ~lastDone'.raced)
         => filters' = BeforeAdd(filters, f, lastDone.created)]_vars

\* The rules of s that differ from f in some field, in order.
RECURSIVE Without(_, _)
Without(s, f) ==
    IF s = << >> THEN << >>
    ELSE IF Head(s) = f THEN Without(Tail(s), f) ELSE <<Head(s)>> \o Without(Tail(s), f)

\* m is the result of applying op, alone, to the mapping old.
IsEffect(op, old, m) ==
    CASE op.kind = "add" ->
            /\ DOMAIN m = DOMAIN old \cup {op.filter.on}
            /\ \A k \in DOMAIN old \ {op.filter.on} : m[k] = old[k]
            /\ m[op.filter.on] =
                  (IF op.filter.on \in DOMAIN old THEN old[op.filter.on] ELSE << >>)
                  \o <<op.filter>>
      [] op.kind = "remove" ->
            /\ DOMAIN m = DOMAIN old \cup {op.filter.on}
            /\ \A k \in DOMAIN old \ {op.filter.on} : m[k] = old[k]
            /\ m[op.filter.on] =
                  (IF op.filter.on \in DOMAIN old
                   THEN Without(old[op.filter.on], op.filter) ELSE << >>)
      [] op.kind = "clear all" -> DOMAIN m = {}

\* C5: concurrent edits are serialized with no lost update: every call that
\* returns Ok publishes its own edit applied to the mapping published just
\* before it, so the final mapping is the edits applied one at a time in the
\* order of their publication (two racing adds leave both rules).
C5_Serialized ==
    [][\A w \in Writers :
         (wpc[w] = "holding" /\ wpc'[w] = "idle" /\ result'[w] = "Ok")
         => IsEffect(wop[w], filters, filters')]_vars

\* Two add_filter calls raced and both rules are in the store.
C5_Witness ==
    /\ lastDone.op = AddOp(FSourceFilesystem)
    /\ lastDone.raced
    /\ Get(filters, "Source") = Some(<<FSourceKeyboard, FSourceFilesystem>>)
    /\ \A w \in Writers : wpc[w] = "idle" /\ result[w] = "Ok"

\* A step of check_event that takes its first look at the store.
StartTaken == rpc # "loop" /\ rvars' # rvars

\* The rules fetched for a tag of dimension dim show the edit op.
FetchShows(op, dim, fetched) ==
    /\ (op.kind = "add" /\ op.filter.on = dim) =>
          /\ fetched.some
          /\ Len(fetched.val) > 0
          /\ fetched.val[Len(fetched.val)] = op.filter
    /\ (op.kind = "remove" /\ op.filter.on = dim) =>
          /\ fetched.some
          /\ \A i \in 1..Len(fetched.val) : fetched.val[i] # op.filter
    /\ op.kind = "clear all" => ~fetched.some

\* C6: once an edit has returned Ok, every later look of check_event at the
\* store shows it: after clear_filters the call returns true at once and no
\* rules are fetched, after add_filter/remove_filter the store is not empty and
\* the rules fetched for a tag of the rule's dimension end with the added rule,
\* resp. do not contain the removed rule.
C6_Visible ==
    [][/\ StartTaken =>
            /\ lastDone.op.kind = "clear all" => (rpc' = "done" /\ verdict' = "Ok(true)")
            /\ (lastDone.op.kind \in {"add", "remove"} /\ event' # << >>) => rpc' = "loop"
       /\ TagStepTaken => FetchShows(lastDone.op, MatcherOf(CurTag), tag_filters')]_vars

\* A check that started after add_filter returned Ok fetched the added rule
\* and rejected the event on it.
C6_Witness ==
    /\ rpc = "done"
    /\ event = <<TagProcess>>
    /\ lastDone.op = AddOp(FProcess)
    /\ tag_filters = Some(<<FProcess>>)
    /\ verdict = "Ok(false)"

\* C7: when the mapping is empty, check_event returns true at once, for every
\* event, without fetching the rules of any tag.
C7_EmptyAdmits ==
    [][(StartTaken /\ DOMAIN filters = {})
       => (rpc' = "done" /\ verdict' = "Ok(true)" /\ idx' = 0 /\ ~tag_filters'.some)]_vars

\* After clear_filters, an event of two tags was admitted with no tag judged.
C7_Witness ==
    /\ rpc = "done"
    /\ Len(event) = MaxTags
    /\ idx = 0
    /\ verdict = "Ok(true)"
    /\ lastDone.op = ClearOp
    /\ DOMAIN filters = {}

\* The rule at position i is negated and matches the tag.
NegatedHit(l, i, tag) == l[i].negate /\ MatchTag(l[i], tag) = "Some(true)"

\* The rule at position i is not negated and does not match the tag.
PlainMiss(l, i, tag) == ~l[i].negate /\ MatchTag(l[i], tag) = "Some(false)"

\* C8: a negated rule that matches the tag sets the accumulator to true
\* whatever failed before it, so the tag passes when no non-negated rule after
\* it fails.
C8_NegationOverride ==
    [][TagStepTaken =>
         \A i \in 1..Len(CurRules) :
            NegatedHit(CurRules, i, CurTag) =>
               /\ TagMatch(SubSeq(CurRules, 1, i), CurTag) = "true"
               /\ (\A j \in (i + 1)..Len(CurRules) : ~PlainMiss(CurRules, j, CurTag))
                     => TagPasses]_vars

\* The rules [{Source, equal, keyboard}, {Source, equal, filesystem, negate}]
\* admitted an event from the filesystem.
C8_Witness ==
    /\ rpc = "done"
    /\ event = <<TagSource>>
    /\ tag_filters = Some(<<FSourceKeyboard, FSourceFilesystem>>)
    /\ verdict = "Ok(true)"

\* C9 as stated: a negated rule that matches the tag makes the tag pass,
\* wherever it sits among the rules of the dimension.
C9_AnyOrder ==
    [][TagStepTaken =>
         ((\E i \in 1..Len(CurRules) : NegatedHit(CurRules, i, CurTag)) => TagPasses)]_vars

\* C9 as amended: when a negated rule matches the tag, the tag passes exactly
\* when no non-negated rule placed after the last matching negated rule fails;
\* the non-negated rules that fail before it do not matter.
C9_LastNegated ==
    [][TagStepTaken =>
         \A i \in 1..Len(CurRules) :
            (/\ NegatedHit(CurRules, i, CurTag)
             /\ \A j \in (i + 1)..Len(CurRules) : ~NegatedHit(CurRules, j, CurTag))
            => (TagPasses <=>
                  \A j \in (i + 1)..Len(CurRules) : ~PlainMiss(CurRules, j, CurTag))]_vars

\* A matching negated rule placed before a failing non-negated rule did not
\* save the tag.
C9_Witness ==
    /\ rpc = "done"
    /\ event = <<TagSource>>
    /\ tag_filters = Some(<<FSourceFilesystem, FSourceKeyboard>>)
    /\ verdict = "Ok(false)"

\* C10: the order in which two rules of one dimension were added decides the
\* verdict: of a non-negated rule that misses the tag and a negated rule that
\* matches it, the tag passes when the negated rule was added last and is
\* rejected when it was added first.
C10_OrderSensitive ==
    [][(TagStepTaken /\ Len(CurRules) = 2) =>
         /\ (PlainMiss(CurRules, 1, CurTag) /\ NegatedHit(CurRules, 2, CurTag))
               => TagPasses
         /\ (NegatedHit(CurRules, 1, CurTag) /\ PlainMiss(CurRules, 2, CurTag))
               => verdict' = "Ok(false)"]_vars

\* The two rules were added with the negated rule last (the store still holds
\* them in that order) and the event passed its second tag on them.
C10_Witness ==
    /\ rpc = "done"
    /\ event = <<TagProcess, TagSource>>
    /\ idx = 2
    /\ lastDone.op = AddOp(FSourceFilesystem)
    /\ Get(filters, "Source") = Some(<<FSourceKeyboard, FSourceFilesystem>>)
    /\ tag_filters = Get(filters, "Source")
    /\ verdict = "Ok(true)"

\* C11: a non-negated rule that misses the tag, with no matching negated
\* rule after it in the dimension's list, makes check_event return false at
\* that tag, whatever tags passed before it and whatever tags follow.
C11_PlainMissRejects ==
    [][(/\ TagStepTaken
        /\ \E i \in 1..Len(CurRules) :
              /\ PlainMiss(CurRules, i, CurTag)
              /\ \A j \in (i + 1)..Len(CurRules) : ~NegatedHit(CurRules, j, CurTag))
       => (rpc' = "done" /\ verdict' = "Ok(false)")]_vars

\* The first tag of the event passed on the rule of its own dimension and the
\* event was rejected on the missed non-negated rule of its second tag.
C11_Witness ==
    /\ rpc = "done"
    /\ event = <<TagSource, TagProcess>>
    /\ idx = 2
    /\ Get(filters, "Source") = Some(<<FSourceFilesystem>>)
    /\ tag_filters = Some(<<FProcess>>)
    /\ verdict = "Ok(false)"

\* The evaluator's own state (not the history kept about it) changes.
ReaderMoves ==
    <<rpc, event, idx, tag_filters, verdict>>' # <<rpc, event, idx, tag_filters, verdict>>

\* C12: the tags are taken in the event's order, one store read per tag; the
\* first tag whose rules reject it ends the call with false at once; and
\* after that return nothing is read for a later tag, so the later tags,
\* even ones whose rules could not be run, do not matter.
C12_ShortCircuit ==
    [][/\ (rpc = "loop" /\ ReaderMoves)
            => /\ idx' = idx + 1
               /\ event' = event
               /\ tag_filters' = Get(filters, MatcherOf(event[idx + 1]))
       /\ (TagStepTaken /\ CurRules # << >> /\ TagMatch(CurRules, CurTag) = "false")
            => (rpc' = "done" /\ verdict' = "Ok(false)")
       /\ (rpc = "done" /\ ReaderMoves)
            => (rpc' # "idle" /\ idx' = 0 /\ tag_filters' = None)
       /\ verdict' = "Ok(false)"
            => /\ rpc' = "done"
               /\ idx' \in 1..Len(event')
               /\ tag_filters'.some
               /\ TagMatch(tag_filters'.val, event'[idx']) = "false"]_vars

\* The event was rejected at its first tag while the store held, for its
\* second tag, a rule that cannot be run against it.
C12_Witness ==
    /\ rpc = "done"
    /\ event = <<TagSource, TagPath>>
    /\ idx = 1
    /\ tag_filters = Some(<<FSourceKeyboard>>)
    /\ Get(filters, "Path") = Some(<<FPath>>)
    /\ verdict = "Ok(false)"

\* C13: a call of check_event that has entered its loop reaches its verdict,
\* with no assumption that an edit in progress, or one waiting for the store,
\* ever finishes.
C13_ReaderProgress == (rpc = "loop") ~> (rpc = "done" /\ verdict # "none")

\* A call judged every tag of its event and returned while one editor was
\* inside its edit and the other was waiting for the store.
C13_Witness ==
    /\ rpc = "done"
    /\ Len(event) = MaxTags
    /\ idx = Len(event)
    /\ verdict = "Ok(true)"
    /\ wpc["w1"] = "holding"
    /\ wpc["w2"] = "waiting"

\* C14: a call of add_filter, remove_filter or clear_filters returns in one
\* of two ways: Ok, with its edit published, or, when the store's change
\* failed and nothing was published, the FilterChange error that names the
\* action of that call; a failed change never returns Ok.
C14_FailureSurfaced ==
    [][\A w \in Writers :
         (wpc[w] = "holding" /\ wpc'[w] = "idle")
         => \/ /\ result'[w] = "Ok"
               /\ filters' = working
               /\ lastDone'.op = wop[w]
            \/ /\ result'[w] = (CASE wop[w].kind = "add"       -> "add"
                                  [] wop[w].kind = "remove"    -> "remove"
                                  [] wop[w].kind = "clear all" -> "clear all")
               /\ filters' = filters
               /\ lastDone' = lastDone]_vars

\* The only editor that ever called put a rule in the store and its
\* clear_filters then failed: the error names the clear and the rule is
\* still there.
C14_Witness ==
    /\ wpc = [w \in Writers |-> "idle"]
    /\ result["w2"] = "none"
    /\ result["w1"] = "clear all"
    /\ Size(filters) > 0

\* The pattern, taken alone, accepts the subject.
PatternHit(pat, subject) ==
    CASE pat.kind = "Exact" -> subject = pat.text
      [] pat.kind = "Regex" -> subject \in pat.lang
      [] pat.kind = "Glob"  -> subject \in pat.lang
      [] pat.kind = "Set"   -> subject \in pat.set

\* The pairings of the table: a positive operator with its pattern kind, a
\* negative operator with its pattern kind.
PositivePairs ==
    {<<"Equal", "Exact">>, <<"Regex", "Regex">>, <<"Glob", "Glob">>,
     <<"InSet", "Set">>, <<"InSet", "Exact">>}

NegativePairs ==
    {<<"NotEqual", "Exact">>, <<"NotRegex", "Regex">>, <<"NotGlob", "Glob">>,
     <<"NotInSet", "Set">>, <<"NotInSet", "Exact">>}

\* C15: a tag judged against a single non-negated rule passes exactly when
\* the table says the rule matches the tag's text: a positive pairing
\* matches when the pattern accepts the text, a negative pairing when it does
\* not, and every other pairing (the auto operator, an operator with a
\* pattern of another kind) is a non-match, never an error.
C15_Table ==
    [][(TagStepTaken /\ Len(CurRules) = 1 /\ ~CurRules[1].negate)
       => LET f == CurRules[1]
              subject == PidToString(CurTag.pid)
              pair == <<f.op, f.pat.kind>>
              expected == IF pair \in PositivePairs THEN PatternHit(f.pat, subject)
                          ELSE IF pair \in NegativePairs THEN ~PatternHit(f.pat, subject)
                          ELSE FALSE
          IN  /\ verdict' # "panic"
              /\ TagPasses <=> expected]_vars

\* A not-equal rule paired with a glob pattern that does not accept the
\* tag's text was a non-match: the event was rejected.
C15_Witness ==
    /\ rpc = "done"
    /\ event = <<TagProcess>>
    /\ tag_filters = Some(<<MkFilter("Process", "NotEqual", PatGlob, FALSE)>>)
    /\ verdict = "Ok(false)"

\* C16: a tag whose dimension has no rules, because the store has no entry
\* for it or because the entry's list is empty, passes: the call goes on to
\* the next tag, or returns true when the tag is the last one. A call
\* therefore returns something other than true only on a store that holds a
\* rule.
C16_NoRulesPasses ==
    [][/\ (/\ TagStepTaken
           /\ \/ MatcherOf(CurTag) \notin DOMAIN filters
              \/ filters[MatcherOf(CurTag)] = << >>)
          => /\ rpc' = (IF idx + 1 = Len(event) THEN "done" ELSE "loop")
             /\ verdict' = (IF idx + 1 = Len(event) THEN "Ok(true)" ELSE "none")
       /\ (ReaderMoves /\ rpc' = "done" /\ verdict' # "Ok(true)")
          => Size(filters) > 0]_vars

\* remove_filter took the last rule out of the store, leaving the empty list
\* of its dimension; an event with a tag of that dimension and a tag of a
\* dimension the store has no entry for was then admitted, both tags judged.
C16_Witness ==
    /\ rpc = "done"
    /\ event = <<TagSource, TagPath>>
    /\ idx = 2
    /\ verdict = "Ok(true)"
    /\ lastDone.op = RemoveOp(FSourceKeyboard)
    /\ filters = [k \in {"Source"} |-> << >>]
    /\ tag_filters = None

\* The list a is the list b with some of its elements dropped, the others in
\* their order.
RECURSIVE IsSubSeq(_, _)
IsSubSeq(a, b) ==
    IF a = << >> THEN TRUE
    ELSE IF b = << >> THEN FALSE
    ELSE IF Head(a) = Head(b) THEN IsSubSeq(Tail(a), Tail(b))
    ELSE IsSubSeq(a, Tail(b))

\* C17: an add_filter(r) that returns Ok leaves the list of r's dimension as
\* it was with r appended at its end; a remove_filter(r) that returns Ok
\* leaves in the list of r's dimension rules that were there, in the order
\* they had; neither adds, drops or changes any other dimension.
C17_Frame ==
    [][\A w \in Writers :
         (/\ wpc[w] = "holding" /\ wpc'[w] = "idle" /\ result'[w] = "Ok"
          /\ wop[w].kind \in {"add", "remove"})
         => LET on == wop[w].filter.on
                old == IF on \in DOMAIN filters THEN filters[on] ELSE << >>
                new == filters'[on]
            IN  /\ DOMAIN filters' \ {on} = DOMAIN filters \ {on}
                /\ \A k \in DOMAIN filters \ {on} : filters'[k] = filters[k]
                /\ wop[w].kind = "add"
                     => /\ Len(new) = Len(old) + 1
                        /\ SubSeq(new, 1, Len(old)) = old
                        /\ new[Len(new)] = wop[w].filter
                /\ wop[w].kind = "remove"
                     => /\ IsSubSeq(new, old)
                        /\ \A i \in 1..Len(old) :
                              old[i] # wop[w].filter
                                 => \E j \in 1..Len(new) : new[j] = old[i]]_vars

\* add_filter put its rule after the rule the source dimension already
\* held, and the process dimension's emptied list is still there.
C17_Witness ==
    /\ lastDone.op = AddOp(FSourceKeyboard)
    /\ wpc["w1"] = "idle"
    /\ result["w1"] = "Ok"
    /\ filters = [k \in {"Source", "Process"} |->
                    IF k = "Source" THEN <<FSourceMouse, FSourceKeyboard>> ELSE << >>]

\* C18: no step of check_event changes the store; and on a store that no
\* edit changes, the verdict a call returns is the value of one function of
\* the mapping and the event, whatever calls ran before it, so two calls on
\* the same event return the same verdict.
C18_ReadOnly ==
    [][/\ ReaderMoves => (filters' = filters /\ <<lock, working>>' = <<lock, working>>)
       /\ (ReaderMoves /\ rpc' = "done")
            => verdict' = CheckEventOn(filters', event')]_vars

\* After other calls, an event of two tags was rejected at its second tag by
\* the one rule of the store, and the store still holds exactly that rule.
C18_Witness ==
    /\ rpc = "done"
    /\ okVerdicts = {}
    /\ event = <<TagProcess, TagProcess7>>
    /\ idx = 2
    /\ verdict = "Ok(false)"
    /\ filters = [k \in {"Process"} |->
                    <<MkFilter("Process", "NotEqual", PatExact, FALSE)>>]

\* How many times the rule g occurs in the list s.
Count(s, g) == Cardinality({i \in 1..Len(s) : s[i] = g})

\* C19: a remove_filter(r) that returns Ok leaves no copy of r in the list of
\* r's dimension, however many there were, and leaves every rule that
\* differs from r in the scoping path, the operator, the pattern or the
\* negation as many times as it was there; when r was not there, the list
\* holds the same rules as before.
C19_RemoveAllEqual ==
    [][\A w \in Writers :
         (/\ wpc[w] = "holding" /\ wpc'[w] = "idle" /\ result'[w] = "Ok"
          /\ wop[w].kind = "remove")
         => LET r == wop[w].filter
                old == IF r.on \in DOMAIN filters THEN filters[r.on] ELSE << >>
                new == filters'[r.on]
                seen == {old[i] : i \in 1..Len(old)} \cup {new[i] : i \in 1..Len(new)}
            IN  /\ Count(new, r) = 0
                /\ \A g \in seen \ {r} : Count(new, g) = Count(old, g)
                /\ Len(new) = Len(old) - Count(old, r)
                /\ Count(old, r) = 0 => new = old]_vars

\* remove_filter(FSourceKeyboard) returned Ok on a list that now holds the
\* rule that differs from it in the scoping path only and the rule that
\* differs from it in the negation only, the other dimension as it was.
C19_Witness ==
    /\ lastDone.op = RemoveOp(FSourceKeyboard)
    /\ wpc["w1"] = "idle"
    /\ result["w1"] = "Ok"
    /\ filters = [k \in {"Source", "Process"} |->
                    IF k = "Source" THEN <<FKeyboardScoped, FKeyboardNegated>>
                    ELSE <<FProcessKeyboard>>]

\* C20: every rule in the store sits under the key of its own dimension; so
\* the rules check_event has fetched for a tag all have the dimension of that
\* tag, and match_tag gives none of them the answer that the rule's dimension
\* does not apply to the tag.
C20_Keyed ==
    /\ \A k \in DOMAIN filters :
          \A i \in 1..Len(filters[k]) : filters[k][i].on = k
    /\ (idx > 0 /\ tag_filters.some)
          => \A i \in 1..Len(tag_filters.val) :
                /\ tag_filters.val[i].on = MatcherOf(event[idx])
                /\ MatchTag(tag_filters.val[i], event[idx]) # "None"

\* The store holds rules of two dimensions and the call was handed, for its
\* source tag, the rule of the source dimension only.
C20_Witness ==
    /\ rpc = "done"
    /\ event = <<TagSource>>
    /\ idx = 1
    /\ tag_filters = Some(<<FSourceKeyboard>>)
    /\ Get(filters, "Path") = Some(<<FPath>>)
    /\ Get(filters, "Source") = Some(<<FSourceKeyboard>>)

====
